---- MODULE Spec2Model ----
(***************************************************************************)
(* A model of deep_qa's SiameseSentenceSelector                            *)
(* (deep_qa/models/sentence_selection/siamese_sentence_selector.py).       *)
(*                                                                         *)
(* Spec        : the life cycle of one selector object: __init__,          *)
(*               _set_padding_lengths, get_padding_lengths, _build_model   *)
(*               and _set_padding_lengths_from_model, in any order.        *)
(* SpecForward : one built selector evaluated on bounded batches, to       *)
(*               follow values and masks through the graph that            *)
(*               _build_model wires.                                       *)
(*                                                                         *)
(* Python's None is the empty tuple and an int n that may be None is the   *)
(* 1-tuple <<n>>, written Some(n), so that the two compare without a type   *)
(* error.                                                                  *)
(***************************************************************************)
EXTENDS Integers, Sequences, FiniteSets, TLC

VARIABLES
    pc,                           \* "new" | "ready" | "failed": where construction stands
    params,                       \* the Params handed to __init__
    num_hidden_seq2seq_layers,    \* self.num_hidden_seq2seq_layers
    share_hidden_seq2seq_layers,  \* self.share_hidden_seq2seq_layers
    num_question_words,           \* self.num_question_words (None or <<n>>)
    num_sentences,                \* self.num_sentences (None or <<n>>)
    num_sentence_words,           \* self.num_sentence_words, kept by TextTrainer
    loss_function,                \* self.loss_function
    loss,                         \* self.loss
    seq2seq_layers,               \* TextTrainer's name-keyed seq2seq encoder cache
    requested,                    \* the names the last _build_model asked the cache for
    model,                        \* self.model: None or the built graph
    returned,                     \* what the last call returned (None for a procedure)
    batch,                        \* the batch the built model was last run on
    forward                       \* the tensors of that run

vars == <<pc, params, num_hidden_seq2seq_layers, share_hidden_seq2seq_layers,
          num_question_words, num_sentences, num_sentence_words, loss_function,
          loss, seq2seq_layers, requested, model, returned, batch, forward>>

attrs == <<num_hidden_seq2seq_layers, share_hidden_seq2seq_layers,
           num_question_words, num_sentences, num_sentence_words,
           loss_function, loss>>

forwardVars == <<batch, forward>>

-----------------------------------------------------------------------------
(* Bounds *)

MaxLayers == 2      \* num_hidden_seq2seq_layers ranges over 0..MaxLayers
MaxLen == 2         \* padding lengths range over 1..MaxLen
MaxBatch == 2       \* batch sizes range over 1..MaxBatch

-----------------------------------------------------------------------------
(* Values *)

None == <<>>
Some(n) == <<n>>
Value(x) == x[1]
Range(s) == {s[i] : i \in DOMAIN s}

Unassigned == "<unassigned>"      \* an attribute __init__ never reached

Lengths == {Some(n) : n \in 1..MaxLen}
OptLengths == {None} \cup Lengths

\* The sentence length in words, which the superclass keeps: when it is set,
\* it is the longest length.
Words == {MaxLen}

\* The choices entered in another order.
loss_choices_first_ranking ==
    << <<"ranking", "ranking_loss">>,
       <<"cross_entropy", "categorical_crossentropy">>,
       <<"hinge_ranking", "ranking_loss_with_margin">> >>

\* loss_choices: an OrderedDict, here its items in insertion order.
loss_choices ==
    << <<"cross_entropy", "categorical_crossentropy">>,
       <<"ranking", "ranking_loss">>,
       <<"hinge_ranking", "ranking_loss_with_margin">> >>

\* list(self.loss_choices.keys())
loss_choices_keys == [i \in DOMAIN loss_choices |-> loss_choices[i][1]]

\* self.loss_choices[key]
loss_choices_get(key) ==
    LET i == CHOOSE j \in DOMAIN loss_choices : loss_choices[j][1] = key
    IN  loss_choices[i][2]

\* What a caller may pass as loss_function: nothing, a valid choice, or not one.
LossParams == {None} \cup {<<k>> : k \in Range(loss_choices_keys)} \cup {<<"hinge">>}

ParamsSet ==
    [num_hidden_seq2seq_layers : {None} \cup {Some(n) : n \in 0..MaxLayers},
     share_hidden_seq2seq_layers : {None, <<TRUE>>, <<FALSE>>},
     num_question_words : OptLengths,
     num_sentences : OptLengths,
     num_sentence_words : {None} \cup {Some(n) : n \in Words},
     loss_function : LossParams]

\* Params.pop(key, default)
pop(p, key, default) == IF p[key] = None THEN default ELSE Value(p[key])

\* Params.pop_choice(key, choices, default_to_first_choice=True): the value
\* when it is one of the choices, the first choice when the key is absent, and
\* a ConfigurationError otherwise.
pop_choice(p, key, choices) ==
    IF p[key] = None THEN [ok |-> TRUE, value |-> choices[1]]
    ELSE IF Value(p[key]) \in Range(choices) THEN [ok |-> TRUE, value |-> Value(p[key])]
    ELSE [ok |-> FALSE, value |-> Unassigned]

-----------------------------------------------------------------------------
(* __init__ *)

Init ==
    /\ pc = "new"
    /\ params \in ParamsSet
    /\ num_hidden_seq2seq_layers = None
    /\ share_hidden_seq2seq_layers = None
    /\ num_question_words = None
    /\ num_sentences = None
    /\ num_sentence_words = None
    /\ loss_function = Unassigned
    /\ loss = Unassigned
    /\ seq2seq_layers = <<>>
    /\ requested = <<>>
    /\ model = None
    /\ returned = None
    /\ batch = None
    /\ forward = None

\* The attributes __init__ leaves behind on params p. Lines 62-65 run before
\* pop_choice can raise; TextTrainer.__init__ (which reads num_sentence_words)
\* and line 69 run only after it returned.
init(p) ==
    LET choice == pop_choice(p, "loss_function", loss_choices_keys)
    IN  [ok |-> choice.ok,
         num_hidden_seq2seq_layers |-> Some(pop(p, "num_hidden_seq2seq_layers", 2)),
         share_hidden_seq2seq_layers |-> Some(pop(p, "share_hidden_seq2seq_layers", FALSE)),
         num_question_words |-> p.num_question_words,
         num_sentences |-> p.num_sentences,
         loss_function |-> choice.value,
         num_sentence_words |-> IF choice.ok THEN p.num_sentence_words ELSE None,
         loss |-> IF choice.ok THEN loss_choices_get(choice.value) ELSE Unassigned]

\* SiameseSentenceSelector.__init__(params)
Construct ==
    /\ pc = "new"
    /\ LET self == init(params)
       IN  /\ num_hidden_seq2seq_layers' = self.num_hidden_seq2seq_layers
           /\ share_hidden_seq2seq_layers' = self.share_hidden_seq2seq_layers
           /\ num_question_words' = self.num_question_words
           /\ num_sentences' = self.num_sentences
           /\ loss_function' = self.loss_function
           /\ num_sentence_words' = self.num_sentence_words
           /\ loss' = self.loss
           /\ pc' = IF self.ok THEN "ready" ELSE "failed"
    /\ UNCHANGED <<params, seq2seq_layers, requested, model, returned, forwardVars>>

-----------------------------------------------------------------------------
(* Padding lengths *)

\* The padding lengths the batching code may hand over: every key present.
PaddingLengths ==
    [num_question_words : 1..MaxLen, num_sentences : 1..MaxLen,
     num_sentence_words : Words]

\* TextTrainer._set_padding_lengths: adopts num_sentence_words when it is unset.
super_set_padding_lengths(padding_lengths) ==
    IF num_sentence_words = None
    THEN Some(padding_lengths.num_sentence_words)
    ELSE num_sentence_words

\* The assignment with its guard lost.
adopt_always(current, observed) == Some(observed)

\* The two guarded assignments of _set_padding_lengths.
adopt(current, observed) == IF current = None THEN Some(observed) ELSE current

\* SiameseSentenceSelector._set_padding_lengths(padding_lengths)
SetPaddingLengths(padding_lengths) ==
    /\ pc = "ready"
    /\ num_sentence_words' = super_set_padding_lengths(padding_lengths)
    /\ num_question_words' = adopt(num_question_words, padding_lengths.num_question_words)
    /\ num_sentences' = adopt(num_sentences, padding_lengths.num_sentences)
    /\ returned' = None
    /\ UNCHANGED <<pc, params, num_hidden_seq2seq_layers, share_hidden_seq2seq_layers,
                   loss_function, loss, seq2seq_layers, requested, model, forwardVars>>

\* d[key] = value on a dict
setitem(d, key, value) ==
    [k \in DOMAIN d \cup {key} |-> IF k = key THEN value ELSE d[k]]

\* TextTrainer.get_padding_lengths
super_get_padding_lengths == [k \in {"num_sentence_words"} |-> num_sentence_words]

\* The dict started empty instead of from the superclass's.
get_padding_lengths_without_super ==
    setitem(setitem(<<>>, "num_question_words", num_question_words),
            "num_sentences", num_sentences)

\* The dict get_padding_lengths builds and returns.
get_padding_lengths ==
    LET padding_lengths == super_get_padding_lengths
        with_question == setitem(padding_lengths, "num_question_words", num_question_words)
    IN  setitem(with_question, "num_sentences", num_sentences)

\* SiameseSentenceSelector.get_padding_lengths()
GetPaddingLengths ==
    /\ pc = "ready"
    /\ returned' = get_padding_lengths
    /\ UNCHANGED <<pc, params, attrs, seq2seq_layers, requested, model, forwardVars>>

-----------------------------------------------------------------------------
(* _build_model *)

\* seq[i] with Python's 0-based index
At(seq, i) == seq[i + 1]

\* seq[i:]
slice_from(seq, i) == SubSeq(seq, i + 1, Len(seq))

\* TextTrainer._get_sentence_shape(sentence_length=None) for a word tokenizer:
\* the given length, or self.num_sentence_words when none is given.
get_sentence_shape(sentence_length) ==
    IF sentence_length = None THEN <<num_sentence_words>> ELSE <<sentence_length>>

\* keras Input(shape=...): the batch dimension, unknown, goes in front.
Input(shape) == <<None>> \o shape

\* The name with the depth left out.
format_without_index(prefix, i) == prefix

\* "seq2seq_{}".format(i) and its two prefixed forms
format(prefix, i) == prefix \o ToString(i)

\* The name the question loop asks for at depth i (lines 104-107).
question_seq2seq_encoder_name(i) ==
    IF Value(share_hidden_seq2seq_layers)
    THEN format("seq2seq_", i)
    ELSE format("question_seq2seq_", i)

\* The sentence loop asking for the question loop's names.
sentence_uses_question_name(i) ==
    IF Value(share_hidden_seq2seq_layers)
    THEN format("seq2seq_", i)
    ELSE format("question_seq2seq_", i)

\* The name the sentence loop asks for at depth i (lines 117-120).
sentence_seq2seq_encoder_name(i) ==
    IF Value(share_hidden_seq2seq_layers)
    THEN format("seq2seq_", i)
    ELSE format("sentence_seq2seq_", i)

\* range(self.num_hidden_seq2seq_layers), as TLA+ indices 1..N for depths 0..N-1
Depths == 1..Value(num_hidden_seq2seq_layers)

\* The names _build_model asks for, in the order it asks: the question loop,
\* then the sentence loop.
requested_names ==
    [i \in Depths |-> question_seq2seq_encoder_name(i - 1)]
        \o [i \in Depths |-> sentence_seq2seq_encoder_name(i - 1)]

\* TextTrainer._get_seq2seq_encoder(name, ...) on the cache: a name seen before
\* keeps its encoder, a new name gets a new encoder (numbered as created).
get_seq2seq_encoder(cache, name) ==
    IF name \in DOMAIN cache
    THEN cache
    ELSE [n \in DOMAIN cache \cup {name} |->
            IF n = name THEN Cardinality(DOMAIN cache) + 1 ELSE cache[n]]

RECURSIVE get_seq2seq_encoders(_, _)
get_seq2seq_encoders(cache, names) ==
    IF names = <<>> THEN cache
    ELSE get_seq2seq_encoders(get_seq2seq_encoder(cache, Head(names)), Tail(names))

\* The two tests with "hinge_ranking" forgotten.
normalize_unless_ranking == loss_function # "ranking"

replace_only_for_ranking == loss_function = "ranking"

\* normalize=self.loss_function == "cross_entropy" (line 146)
attention_normalize == loss_function = "cross_entropy"

\* if self.loss_function != "cross_entropy" (line 148)
replace_masked_values == loss_function # "cross_entropy"

\* The graph _build_model returns, given the encoder cache after its requests.
\* Each tower lists its layers in the order they are applied.
build_model(cache) ==
    [question_input_shape |-> Input(get_sentence_shape(num_question_words)),
     sentences_input_shape |-> Input(<<num_sentences>> \o get_sentence_shape(None)),
     question_seq2seq |->
        [i \in Depths |->
            [name |-> question_seq2seq_encoder_name(i - 1),
             encoder |-> cache[question_seq2seq_encoder_name(i - 1)]]],
     sentence_seq2seq |->
        [i \in Depths |->
            [name |-> sentence_seq2seq_encoder_name(i - 1),
             encoder |-> cache[sentence_seq2seq_encoder_name(i - 1)]]],
     question_encoder |-> "question",
     sentences_encoder |-> "sentence",
     normalize |-> attention_normalize,
     replace_masked |-> replace_masked_values]

\* self.model = self._build_model(), as the trainer calls it. Nothing in
\* _build_model looks at whether the padding lengths are set.
BuildModel ==
    /\ pc = "ready"
    /\ requested' = requested_names
    /\ seq2seq_layers' = get_seq2seq_encoders(seq2seq_layers, requested_names)
    /\ model' = build_model(seq2seq_layers')
    /\ returned' = None
    /\ UNCHANGED <<pc, params, attrs, forwardVars>>

\* self.model.get_input_shape_at(0)
get_input_shape_at_0 == <<model.question_input_shape, model.sentences_input_shape>>

\* TextTrainer._set_text_lengths_from_model_input(input_slice) for a word
\* tokenizer: self.num_sentence_words = input_slice[0]
set_text_lengths_from_model_input(input_slice) == At(input_slice, 0)

\* SiameseSentenceSelector._set_padding_lengths_from_model(). Without a model
\* line 189 raises before anything is assigned.
SetPaddingLengthsFromModel ==
    /\ pc = "ready"
    /\ model # None
    /\ num_sentence_words' =
         set_text_lengths_from_model_input(slice_from(At(get_input_shape_at_0, 1), 2))
    /\ num_question_words' = At(At(get_input_shape_at_0, 0), 1)
    /\ num_sentences' = At(At(get_input_shape_at_0, 1), 1)
    /\ returned' = None
    /\ UNCHANGED <<pc, params, num_hidden_seq2seq_layers, share_hidden_seq2seq_layers,
                   loss_function, loss, seq2seq_layers, requested, model, forwardVars>>

-----------------------------------------------------------------------------
(* The layers the graph is made of.  A tensor is [shape, data, mask]: shape    *)
(* lists the example, sentence-index and word-index extents that are left,     *)
(* data is indexed by example, or by example and sentence index, and holds one *)
(* opaque value for everything inside (the words and the vector components);   *)
(* mask is indexed like data, or is None.                                       *)

VERY_NEGATIVE_NUMBER == -1000000

\* Token contents of one sentence slot: 0 is a slot of padding only.
SentenceContents == {0, 1}
\* Token contents of one question.
QuestionContents == {1, 2}

\* The embedding collaborator on the sentences input: one embedding per slot,
\* and a mask that is off exactly on padding.
embed_sentences(tokens, S, L) ==
    [shape |-> <<Len(tokens), S, L>>,
     data |-> [b \in DOMAIN tokens |-> [s \in 1..S |-> tokens[b][s] + 1]],
     mask |-> [b \in DOMAIN tokens |-> [s \in 1..S |-> tokens[b][s] # 0]]]

\* The embedding collaborator on the question input.
embed_question(tokens, Q) ==
    [shape |-> <<Len(tokens), Q>>,
     data |-> [b \in DOMAIN tokens |-> tokens[b] + 1],
     mask |-> [b \in DOMAIN tokens |-> tokens[b] # 0]]

\* CollapseToBatch(1): (B, S, ...) -> (B*S, ...), row-major, the mask alike.
CollapseToBatch(t) ==
    LET B == t.shape[1]
        S == t.shape[2]
    IN  [shape |-> <<B * S>> \o SubSeq(t.shape, 3, Len(t.shape)),
         data |-> [k \in 1..(B * S) |-> t.data[((k - 1) \div S) + 1][((k - 1) % S) + 1]],
         mask |-> [k \in 1..(B * S) |-> t.mask[((k - 1) \div S) + 1][((k - 1) % S) + 1]]]

\* Whether ExpandFromBatch(1)([to_expand, to_copy]) can reshape: the first two
\* extents of to_copy must multiply to the batch extent of to_expand.
can_expand(to_expand, to_copy) ==
    /\ Len(to_copy.shape) >= 2
    /\ to_copy.shape[1] * to_copy.shape[2] = to_expand.shape[1]

\* ExpandFromBatch(1)([to_expand, to_copy]): (B*S, ...) -> (B, S, ...) with B
\* and S read off to_copy's shape; to_copy's values are not looked at.
ExpandFromBatch(to_expand, to_copy) ==
    LET B == to_copy.shape[1]
        S == to_copy.shape[2]
    IN  [shape |-> <<B, S>> \o Tail(to_expand.shape),
         data |-> [b \in 1..B |-> [s \in 1..S |-> to_expand.data[(b - 1) * S + s]]],
         mask |-> [b \in 1..B |-> [s \in 1..S |-> to_expand.mask[(b - 1) * S + s]]]]

\* One seq2seq encoder, with its weights fixed, on one sequence: the same
\* length comes out, and the values depend on the input and on the encoder.
seq2seq_encode(encoder, value) == (value + encoder) % 4

\* A seq2seq layer on a batch of sequences: each on its own, mask kept.
seq2seq_layer(layer, t) ==
    [shape |-> t.shape,
     data |-> [k \in DOMAIN t.data |-> seq2seq_encode(layer.encoder, t.data[k])],
     mask |-> t.mask]

RECURSIVE seq2seq_stack(_, _)
seq2seq_stack(layers, t) ==
    IF layers = <<>> THEN t
    ELSE seq2seq_stack(Tail(layers), seq2seq_layer(Head(layers), t))

\* The four unit vectors a sequence may be encoded to.
unit_vectors == << <<1, 0>>, <<0, 1>>, <<-1, 0>>, <<0, -1>> >>

\* A sequence-to-vector encoder ("question" or "sentence"), with its weights
\* fixed, on one sequence.
vector_encode(name, value) ==
    unit_vectors[((value + (IF name = "question" THEN 0 ELSE 1)) % 4) + 1]

\* A sequence-to-vector encoder on a batch: the word-index extent goes, and
\* the output carries no mask.
encoder_layer(name, t) ==
    [shape |-> <<t.shape[1]>>,
     data |-> [k \in DOMAIN t.data |-> vector_encode(name, t.data[k])],
     mask |-> None]

\* AddEncoderMask()([encoded, source]): encoded, tagged with source's mask.
AddEncoderMask(encoded, source) ==
    [shape |-> encoded.shape, data |-> encoded.data, mask |-> source.mask]

\* Cosine similarity of two of the unit vectors: their dot product.
cosine_similarity(u, v) == u[1] * v[1] + u[2] * v[2]

\* The masked softmax of one row of similarities, kept as a term.
masked_softmax(row, mask, s) ==
    [softmax_of |-> row, over |-> mask, at |-> s]

\* Attention(similarity_function=cosine_similarity, normalize=...) on
\* [vector, matrix]: one similarity per (example, sentence index); normalized
\* over the sentence index, or left as it is with the matrix's mask kept.
Attention(normalize, vector, matrix) ==
    LET B == matrix.shape[1]
        S == matrix.shape[2]
        similarities ==
            [b \in 1..B |->
                [s \in 1..S |-> cosine_similarity(vector.data[b], matrix.data[b][s])]]
    IN  IF normalize
        THEN [shape |-> <<B, S>>,
              data |-> [b \in 1..B |->
                          [s \in 1..S |-> masked_softmax(similarities[b], matrix.mask[b], s)]],
              mask |-> None]
        ELSE [shape |-> <<B, S>>, data |-> similarities, mask |-> matrix.mask]

\* ReplaceMaskedValues(replace_with): the value where the mask is on,
\* replace_with where it is off.
ReplaceMaskedValues(replace_with, t) ==
    IF t.mask = None THEN t
    ELSE [shape |-> t.shape,
          data |-> [b \in DOMAIN t.data |->
                      [s \in DOMAIN t.data[b] |->
                          IF t.mask[b][s] THEN t.data[b][s] ELSE replace_with]],
          mask |-> t.mask]

-----------------------------------------------------------------------------
(* The graph of _build_model, evaluated *)

\* Lines 113-125: the sentences, collapsed and taken through the sentence
\* tower's seq2seq layers.
modeled_sentences(m, sentences_embedding) ==
    seq2seq_stack(m.sentence_seq2seq, CollapseToBatch(sentences_embedding))

\* The question embedding handed over in its place.
expand_like_question(question_embedding, sentences_embedding) == question_embedding

\* The tensor line 137 hands to ExpandFromBatch as the shape to copy.
expand_like(question_embedding, sentences_embedding) == sentences_embedding

\* Lines 101-153 on one batch. A reshape that cannot be done ends the run.
run_model(m, x) ==
    LET S == Len(x.sentences[1])
        question_embedding ==
            embed_question(x.questions, Value(At(m.question_input_shape, 1)))
        sentences_embedding ==
            embed_sentences(x.sentences, S, Value(At(m.sentences_input_shape, 2)))
        modeled_question == seq2seq_stack(m.question_seq2seq, question_embedding)
        collapsed_sentences == CollapseToBatch(sentences_embedding)
        modeled == modeled_sentences(m, sentences_embedding)
        encoded_question == encoder_layer(m.question_encoder, modeled_question)
        encoded == AddEncoderMask(encoder_layer(m.sentences_encoder, modeled), modeled)
        to_copy == expand_like(question_embedding, sentences_embedding)
    IN  IF ~can_expand(encoded, to_copy)
        THEN [status |-> "error"]
        ELSE LET encoded_sentences == ExpandFromBatch(encoded, to_copy)
                 sentence_probabilities ==
                     Attention(m.normalize, encoded_question, encoded_sentences)
             IN  [status |-> "ok",
                  sentences_embedding |-> sentences_embedding,
                  collapsed_sentences |-> collapsed_sentences,
                  encoded_question |-> encoded_question,
                  encoded_sentences |-> encoded_sentences,
                  output |->
                     IF m.replace_masked
                     THEN ReplaceMaskedValues(VERY_NEGATIVE_NUMBER, sentence_probabilities)
                     ELSE sentence_probabilities]

-----------------------------------------------------------------------------
(* The life cycle *)

Next ==
    \/ Construct
    \/ \E padding_lengths \in PaddingLengths : SetPaddingLengths(padding_lengths)
    \/ GetPaddingLengths
    \/ BuildModel
    \/ SetPaddingLengthsFromModel

Spec == Init /\ [][Next]_vars

-----------------------------------------------------------------------------
(* A built selector run on a batch *)

\* Configurations that fix every length, as a selector about to be run has.
ForwardParams ==
    {p \in ParamsSet :
        /\ p.num_hidden_seq2seq_layers \in {Some(0), Some(MaxLayers)}
        /\ p.share_hidden_seq2seq_layers # None
        /\ p.num_question_words # None
        /\ p.num_sentences # None
        /\ p.num_sentence_words = Some(MaxLen)
        /\ p.loss_function \in {<<k>> : k \in Range(loss_choices_keys)}}

\* The batches padded to S sentences per example.
Batches(S) ==
    UNION {[questions : [1..B -> QuestionContents],
            sentences : [1..B -> [1..S -> SentenceContents]]] : B \in 1..MaxBatch}

\* The selector constructed on p, its model built, and a batch padded to its
\* lengths at hand.
InitForward ==
    \E p \in ForwardParams :
        LET self == init(p)
        IN  /\ pc = "ready"
            /\ params = p
            /\ num_hidden_seq2seq_layers = self.num_hidden_seq2seq_layers
            /\ share_hidden_seq2seq_layers = self.share_hidden_seq2seq_layers
            /\ num_question_words = self.num_question_words
            /\ num_sentences = self.num_sentences
            /\ num_sentence_words = self.num_sentence_words
            /\ loss_function = self.loss_function
            /\ loss = self.loss
            /\ requested = requested_names
            /\ seq2seq_layers = get_seq2seq_encoders(<<>>, requested_names)
            /\ model = build_model(seq2seq_layers)
            /\ returned = None
            /\ batch \in Batches(Value(num_sentences))
            /\ forward = None

\* The built model on the batch.
Forward ==
    /\ pc = "ready"
    /\ model # None
    /\ batch # None
    /\ forward = None
    /\ forward' = run_model(model, batch)
    /\ UNCHANGED <<pc, params, attrs, seq2seq_layers, requested, model, returned, batch>>

NextForward == Forward

SpecForward == InitForward /\ [][NextForward]_vars

-----------------------------------------------------------------------------
(* Claims on the life cycle (Spec) *)

\* C1: in a _set_padding_lengths call, each of num_question_words and
\* num_sentences, independently, takes the observed value when it is None and
\* keeps its value, whatever is observed, when it is already set (by the
\* configuration or by an earlier call).
C1_SetPaddingLengthsAdoptsOnce ==
    [][\A padding_lengths \in PaddingLengths :
         SetPaddingLengths(padding_lengths) =>
            /\ num_question_words' =
                 IF num_question_words = None
                 THEN Some(padding_lengths.num_question_words)
                 ELSE num_question_words
            /\ num_sentences' =
                 IF num_sentences = None
                 THEN Some(padding_lengths.num_sentences)
                 ELSE num_sentences]_vars

\* C1 witness: before any model exists, num_sentences was adopted from a call
\* (the configuration gave none) while the configured num_question_words, a
\* different number, went through that call untouched.
C1_Witness ==
    /\ pc = "ready"
    /\ model = None
    /\ params.num_sentences = None
    /\ num_sentences = Some(2)
    /\ params.num_question_words = Some(1)
    /\ num_question_words = Some(1)

\* C2 (the claim as stated): a model is only ever built with both
\* num_question_words and num_sentences set, so no built model has an unbound
\* question-length or sentence-count input dimension.
C2_BuildFailsWhenLengthsUnset ==
    model # None =>
        /\ At(model.question_input_shape, 1) # None
        /\ At(model.sentences_input_shape, 1) # None

\* C3: construction fails exactly when loss_function is given and is not one of
\* "cross_entropy", "ranking", "hinge_ranking"; a failed construction leaves no
\* object to build a model from; an absent loss_function becomes
\* "cross_entropy" and a valid one is kept as given.
C3_InvalidLossFailsAtConstruction ==
    pc # "new" =>
        /\ pc = "failed" <=>
             params.loss_function \notin
                {None, <<"cross_entropy">>, <<"ranking">>, <<"hinge_ranking">>}
        /\ pc = "failed" =>
             /\ model = None
             /\ requested = <<>>
             /\ seq2seq_layers = <<>>
             /\ loss_function = Unassigned
        /\ pc = "ready" =>
             loss_function =
                IF params.loss_function = None
                THEN "cross_entropy"
                ELSE Value(params.loss_function)

\* C3 witness: a construction that failed on the loss_function "hinge".
C3_Witness ==
    /\ pc = "failed"
    /\ params.loss_function = <<"hinge">>

\* C4: one run of _build_model asks for exactly N distinct seq2seq encoder
\* names when the layers are shared and 2*N when they are not; with N = 0 it
\* asks for none and both towers are empty.
C4_DistinctEncoderNames ==
    model # None =>
        LET N == Value(num_hidden_seq2seq_layers)
        IN  /\ Cardinality(Range(requested)) =
                 IF Value(share_hidden_seq2seq_layers) THEN N ELSE 2 * N
            /\ N = 0 =>
                 /\ requested = <<>>
                 /\ model.question_seq2seq = <<>>
                 /\ model.sentence_seq2seq = <<>>

\* C4 witness: a model built with two unshared layers, four names asked for.
C4_Witness ==
    /\ model # None
    /\ Value(num_hidden_seq2seq_layers) = 2
    /\ ~Value(share_hidden_seq2seq_layers)
    /\ Cardinality(Range(requested)) = 4

\* C5: in the built graph, with sharing on, both towers apply at depth i the
\* one encoder named "seq2seq_i", for i = 0..N-1 in that order; with sharing
\* off, the question tower applies "question_seq2seq_i" and the sentence tower
\* "sentence_seq2seq_i", and no encoder is in both towers; in both modes the
\* encoders of a tower at different depths differ.
C5_TowerSharing ==
    model # None =>
        LET N == Value(num_hidden_seq2seq_layers)
            q == model.question_seq2seq
            s == model.sentence_seq2seq
        IN  /\ Len(q) = N
            /\ Len(s) = N
            /\ \A i, j \in 1..N :
                  i # j => /\ q[i].encoder # q[j].encoder
                           /\ s[i].encoder # s[j].encoder
            /\ Value(share_hidden_seq2seq_layers) =>
                  \A i \in 1..N :
                     /\ q[i].name = "seq2seq_" \o ToString(i - 1)
                     /\ s[i].name = q[i].name
                     /\ s[i].encoder = q[i].encoder
            /\ ~Value(share_hidden_seq2seq_layers) =>
                  /\ \A i \in 1..N :
                        /\ q[i].name = "question_seq2seq_" \o ToString(i - 1)
                        /\ s[i].name = "sentence_seq2seq_" \o ToString(i - 1)
                  /\ \A i, j \in 1..N :
                        /\ q[i].name # s[j].name
                        /\ q[i].encoder # s[j].encoder

\* C5 witness: a model built with two shared layers, each tower ending in the
\* same encoder.
C5_Witness ==
    /\ model # None
    /\ Value(share_hidden_seq2seq_layers)
    /\ Len(model.question_seq2seq) = 2
    /\ model.question_seq2seq[2].encoder = model.sentence_seq2seq[2].encoder

\* C6: the built graph normalizes the similarities exactly for "cross_entropy"
\* and replaces masked values exactly for "ranking" and "hinge_ranking": each
\* loss choice has one of the two and not the other.
C6_NormalizeXorReplace ==
    model # None =>
        /\ loss_function \in {"cross_entropy", "ranking", "hinge_ranking"}
        /\ loss_function = "cross_entropy" =>
              model.normalize /\ ~model.replace_masked
        /\ loss_function \in {"ranking", "hinge_ranking"} =>
              ~model.normalize /\ model.replace_masked

\* C6 witness: a model built for "hinge_ranking", with the replacement step.
C6_Witness ==
    /\ model # None
    /\ loss_function = "hinge_ranking"
    /\ model.replace_masked

\* C9 (the claim as stated): once num_question_words or num_sentences is set,
\* no operation changes it, _set_padding_lengths_from_model included.
C9_FixedLengthsImmutable ==
    [][/\ num_question_words # None => num_question_words' = num_question_words
       /\ num_sentences # None => num_sentences' = num_sentences]_vars

\* C10: get_padding_lengths returns the superclass's keys with the
\* superclass's values, plus num_question_words and num_sentences with the
\* attributes' values at the call, and changes no attribute.
C10_GetPaddingLengths ==
    [][returned' # None =>
         /\ DOMAIN returned' =
               DOMAIN super_get_padding_lengths \cup {"num_question_words", "num_sentences"}
         /\ \A k \in DOMAIN super_get_padding_lengths :
               returned'[k] = super_get_padding_lengths[k]
         /\ returned'["num_question_words"] = num_question_words
         /\ returned'["num_sentences"] = num_sentences
         /\ attrs' = attrs]_vars

\* C10 witness: a returned dict carrying an adopted num_sentences.
C10_Witness ==
    /\ returned # None
    /\ params.num_sentences = None
    /\ returned["num_sentences"] = Some(2)

-----------------------------------------------------------------------------
(* Claims on a run of the built model (SpecForward) *)

\* One sentence slot's embedding taken through the sentence tower and the
\* "sentence" encoder on its own, with no reshape.
RECURSIVE through_layers(_, _)
through_layers(layers, value) ==
    IF layers = <<>> THEN value
    ELSE through_layers(Tail(layers), seq2seq_encode(Head(layers).encoder, value))

\* C7: with "ranking" or "hinge_ranking", every output slot whose sentence mask
\* (attached by AddEncoderMask, restored by ExpandFromBatch) is off holds
\* VERY_NEGATIVE_NUMBER, and every slot whose mask is on holds the cosine
\* similarity of its question and sentence vectors, unnormalized.
C7_MaskedSlotsGetSentinel ==
    (forward # None /\ loss_function \in {"ranking", "hinge_ranking"}) =>
        /\ forward.status = "ok"
        /\ \A b \in DOMAIN batch.sentences : \A s \in DOMAIN batch.sentences[b] :
              forward.output.data[b][s] =
                 IF forward.encoded_sentences.mask[b][s]
                 THEN cosine_similarity(forward.encoded_question.data[b],
                                        forward.encoded_sentences.data[b][s])
                 ELSE VERY_NEGATIVE_NUMBER

\* C7 witness: a "hinge_ranking" run whose output has the sentinel in a padding
\* slot and a similarity in a slot of the same example that is not padding.
C7_Witness ==
    /\ forward # None
    /\ forward.status = "ok"
    /\ loss_function = "hinge_ranking"
    /\ Len(batch.sentences[1]) = 2
    /\ batch.sentences[1] = <<0, 1>>
    /\ forward.output.data[1][1] = VERY_NEGATIVE_NUMBER
    /\ forward.output.data[1][2] \in {-1, 0, 1}

\* C8: the sentences collapsed from (B, S, ...) to (B*S, ...) and, after the
\* per-sentence layers, expanded against the sentences embedding come back as
\* (B, S, ...) with slot (b, s) holding what sentence s of example b was
\* encoded to, and the mask at (b, s) that of sentence s of example b.
C8_CollapseExpandKeepsPositions ==
    forward # None =>
        LET B == Len(batch.sentences)
            S == Value(num_sentences)
        IN  /\ forward.status = "ok"
            /\ forward.sentences_embedding.shape = <<B, S, Value(num_sentence_words)>>
            /\ forward.collapsed_sentences.shape = <<B * S, Value(num_sentence_words)>>
            /\ forward.encoded_sentences.shape = <<B, S>>
            /\ DOMAIN forward.encoded_sentences.data = 1..B
            /\ \A b \in 1..B :
                  /\ DOMAIN forward.encoded_sentences.data[b] = 1..S
                  /\ \A s \in 1..S :
                        /\ forward.collapsed_sentences.data[(b - 1) * S + s] =
                              forward.sentences_embedding.data[b][s]
                        /\ forward.collapsed_sentences.mask[(b - 1) * S + s] =
                              forward.sentences_embedding.mask[b][s]
                        /\ forward.encoded_sentences.data[b][s] =
                              vector_encode("sentence",
                                  through_layers(model.sentence_seq2seq,
                                                 forward.sentences_embedding.data[b][s]))
                        /\ forward.encoded_sentences.mask[b][s] =
                              forward.sentences_embedding.mask[b][s]
                        /\ forward.encoded_sentences.mask[b][s] = (batch.sentences[b][s] # 0)

\* C8 witness: a run on two examples of two sentences whose padding differs
\* from slot to slot, and is found again slot by slot after the round trip.
C8_Witness ==
    /\ forward # None
    /\ forward.status = "ok"
    /\ Len(batch.sentences) = 2
    /\ batch.sentences[1] = <<1, 0>>
    /\ batch.sentences[2] = <<0, 0>>
    /\ forward.encoded_sentences.mask = <<<<TRUE, FALSE>>, <<FALSE, FALSE>>>>

====
